---- MODULE Spec2Model ----
(***************************************************************************)
(* State-machine model of mic/imager/raw.py (RawImageCreator): partition   *)
(* list resolution, loop mounting through the partition planner, syslinux  *)
(* configuration and installation, unmounting, and staging of the final    *)
(* image files.                                                            *)
(***************************************************************************)
EXTENDS Integers, Sequences, FiniteSets, TLC

\* ------------------------------------------------------------------------
\* Bounds of the model
\* ------------------------------------------------------------------------
MaxParts == 2
MaxCalls == 2

\* ------------------------------------------------------------------------
\* Values
\* ------------------------------------------------------------------------
\* Python's None (falsy) for an option that was not given in the ks file
None == "<None>"

DiskNames == {"sda", "sdb"}
MountPoints == {"/", "/boot"}
FsTypes == {"ext3"}

\* size of the partition synthesized by _get_parts ("--size 1900")
DefaultSize == 1900

\* a partition line of the kickstart file (the fields raw.py reads)
PartSpecs ==
    [disk : DiskNames \cup {None},
     mountpoint : MountPoints \cup {None},
     fstype : FsTypes \cup {None},
     fsopts : {None},
     size : {DefaultSize}]

\* "part / --size 1900 --ondisk sda --fstype=ext3"
DefaultPart ==
    [disk |-> "sda", mountpoint |-> "/", fstype |-> "ext3", fsopts |-> None,
     size |-> DefaultSize]

\* sequences over S of length at most n
SeqsUpTo(S, n) == UNION {[1..k -> S] : k \in 0..n}

\* kernel versions the package manager may report (_get_kernel_versions)
KernelLists == {<< >>, <<"3.0">>, <<"3.0", "3.1">>}

VARIABLES
    ks_partitions,   \* self.ks.handler.partition.partitions
    disk_names,      \* self._disk_names
    ret,             \* outcome of the last call: operation, status, value
    ncalls,          \* number of get_disk_names/_get_parts calls made so far
    ks_reads,        \* number of times the partition list was read from ks
    ptable_format,   \* self._ptable_format: "msdos" or "gpt"
    compress_image,  \* self.compress_image: None or the compression method
    pack_to,         \* self.pack_to: None or the archive name
    checksum,        \* self.checksum
    bmap_needed,     \* self.bmap_needed: None, "False" or "True"
    use_uuid,        \* self.use_uuid: fstab_entry == "uuid"
    fs_uuids,        \* positions of the partitions whose filesystem has a UUID
    has_syslinux,    \* <instroot>/usr/share/syslinux/ exists
    has_extlinux,    \* <instroot>/boot/extlinux/ exists
    has_symkern,     \* <instroot>/boot/vmlinuz exists (os.path.lexists)
    kernel_versions, \* the versions of self._get_kernel_versions(), flattened
    extlinux_conf,   \* content of <instroot>/boot/extlinux/extlinux.conf
    instloop,        \* self.__instloop: NoLoop or the planner object
    disks,           \* self.__disks: the disk names, in the dict's key order
    imgdir,          \* self.__imgdir and the files of that directory
    outdir,          \* the files of self._outdir
    log,             \* the calls made to collaborators and tools, in order
    stage            \* position of the build in the pipeline

vars == <<ks_partitions, disk_names, ret, ncalls, ks_reads, ptable_format,
          compress_image, pack_to, checksum, bmap_needed, use_uuid,
          fs_uuids, has_syslinux, has_extlinux, has_symkern,
          kernel_versions, extlinux_conf, instloop, disks, imgdir, outdir, log,
          stage>>

layoutVars == <<ks_partitions, disk_names, ret, ncalls, ks_reads>>
configVars == <<ptable_format, compress_image, pack_to, checksum, bmap_needed,
                use_uuid>>
rootfsVars == <<has_syslinux, has_extlinux, has_symkern, kernel_versions,
                fs_uuids>>
imageVars == <<instloop, disks, imgdir, outdir>>

NoRet == [op |-> "none", status |-> "none", value |-> <<>>]

\* ------------------------------------------------------------------------
\* _get_parts
\* ------------------------------------------------------------------------
\* a faulty variant: the default partition is appended to any list
PartsWithDefaultAppended(partitions) == Append(partitions, DefaultPart)

\* the partition list after _get_parts: a default partition is appended to
\* an empty list
PartsAfterGetParts(partitions) ==
    IF partitions = <<>> THEN Append(partitions, DefaultPart) ELSE partitions

\* ------------------------------------------------------------------------
\* get_disk_names
\* ------------------------------------------------------------------------
\* the loop over range(len(parts)), from index i on, with the names
\* accumulated so far in self._disk_names
RECURSIVE DiskNamesLoop(_, _, _)
DiskNamesLoop(parts, i, names) ==
    IF i > Len(parts) THEN [status |-> "ok", names |-> names]
    ELSE IF parts[i].disk = None
         THEN [status |-> "CreatorError", names |-> names]
    ELSE IF parts[i].mountpoint # None /\ parts[i].fstype = None
         THEN [status |-> "CreatorError", names |-> names]
    ELSE DiskNamesLoop(parts, i + 1, Append(names, parts[i].disk))

\* a faulty variant: the cached list is never used
CacheNeverHit(names) == FALSE

\* if self._disk_names: return self._disk_names
CacheHit(names) == names # <<>>

GetParts ==
    /\ ncalls < MaxCalls
    /\ ncalls' = ncalls + 1
    /\ ks_reads' = ks_reads + 1
    /\ ks_partitions' = PartsAfterGetParts(ks_partitions)
    /\ ret' = [op |-> "_get_parts", status |-> "ok", value |-> ks_partitions']
    /\ UNCHANGED <<disk_names, configVars, rootfsVars, extlinux_conf,
                   imageVars, log, stage>>

GetDiskNames ==
    /\ ncalls < MaxCalls
    /\ ncalls' = ncalls + 1
    /\ IF CacheHit(disk_names)
       THEN /\ ret' = [op |-> "get_disk_names", status |-> "ok",
                       value |-> disk_names]
            /\ UNCHANGED <<ks_partitions, disk_names, ks_reads>>
       ELSE LET parts == PartsAfterGetParts(ks_partitions)
                r == DiskNamesLoop(parts, 1, disk_names)
            IN /\ ks_partitions' = parts
               /\ ks_reads' = ks_reads + 1
               /\ disk_names' = r.names
               /\ ret' = [op |-> "get_disk_names", status |-> r.status,
                          value |-> IF r.status = "ok" THEN r.names ELSE <<>>]
    /\ UNCHANGED <<configVars, rootfsVars, extlinux_conf, imageVars, log,
                   stage>>

\* ------------------------------------------------------------------------
\* The partition planner (PartitionedMount), as far as raw.py reads it
\* ------------------------------------------------------------------------
NoLoop ==
    [created |-> FALSE, partitions |-> <<>>, mountOrder |-> <<>>,
     subvolumes |-> <<>>]

\* number the planner gives partition i: its rank on its disk
PartNum(parts, i) ==
    Cardinality({j \in 1..i : parts[j].disk = parts[i].disk})

\* the planner's partition records after add_partition/layout_partitions;
\* a GPT partition UUID is assigned only for a gpt table, and only when the
\* planner could read it back (partuuidOk); a filesystem UUID is recorded
\* for the formatted partitions whose position is in uuids
PlannerPartitions(parts, fmt, partuuidOk, uuids) ==
    [i \in 1..Len(parts) |->
        [disk_name |-> parts[i].disk,
         num |-> PartNum(parts, i),
         mountpoint |-> parts[i].mountpoint,
         fstype |-> parts[i].fstype,
         fsopts |-> parts[i].fsopts,
         uuid |-> IF parts[i].fstype # None /\ i \in uuids
                  THEN "uuid-" \o parts[i].disk \o ToString(PartNum(parts, i))
                  ELSE None,
         partuuid |-> IF fmt = "gpt" /\ partuuidOk
                      THEN "partuuid-" \o parts[i].disk
                              \o ToString(PartNum(parts, i))
                      ELSE None]]

\* the planner mounts "/" before "/boot"
PlannerMountOrder(parts) ==
    LET mps == [i \in 1..Len(parts) |-> parts[i].mountpoint]
    IN SelectSeq(mps, LAMBDA m : m = "/") \o
       SelectSeq(mps, LAMBDA m : m = "/boot")

\* a btrfs subvolume of the planner: its mountpoint and mount options
Subvolume(mountpoint, fsopts) == [mountpoint |-> mountpoint, fsopts |-> fsopts]

\* the subvolume lists the planner can hold: empty unless the root partition
\* is btrfs; then possibly the root subvolume and one for /home
SubvolumeChoices(parts) ==
    IF \E i \in 1..Len(parts) :
          parts[i].mountpoint = "/" /\ parts[i].fstype = "btrfs"
    THEN {<<>>,
          <<Subvolume("/", None), Subvolume("/home", None)>>,
          <<Subvolume("/", None), Subvolume("/home", "subvol=home")>>}
    ELSE {<<>>}

\* the disks the planner knows after add_partition
PlannerDisks(parts) == {parts[i].disk : i \in 1..Len(parts)}

\* the orders in which a dict with keys S can list them
KeyOrders(S) ==
    {q \in [1..Cardinality(S) -> S] : \A a \in S : \E i \in DOMAIN q : q[i] = a}

\* what layout_partitions() and mount() can do
PlannerOutcomes == {"ok", "layout_error", "mount_error"}

\* what cleanup() can do
CleanupOutcomes == {"ok", "MountError"}

\* ------------------------------------------------------------------------
\* File names: _full_name(name, ext) is <<name, ext>>; a compressed file
\* gets the method as one more extension
\* ------------------------------------------------------------------------
FullName(name, extention) == <<name, extention>>

EndsWith(f, ext) == Len(f) > 0 /\ f[Len(f)] = ext

NoDir == [created |-> FALSE, files |-> {}]

\* ------------------------------------------------------------------------
\* _mount_instroot
\* ------------------------------------------------------------------------
AddPartitionCalls(parts) ==
    [i \in 1..Len(parts) |-> <<"add_partition", parts[i].disk>>]

AddDiskCalls(order) ==
    [i \in 1..Len(order) |-> <<"add_disk", order[i]>>]

\* the whole of _mount_instroot for partition list parts, planner outcome oc
\* and dict order `order`; pu, uu and sv are what the planner records:
\* whether it read the GPT UUIDs, the filesystem UUIDs, the subvolumes
MountInstrootResult(parts, fmt, oc, pu, uu, sv, order) ==
    LET loop == [created |-> TRUE,
                 partitions |-> PlannerPartitions(parts, fmt, pu, uu),
                 mountOrder |-> PlannerMountOrder(parts),
                 subvolumes |-> sv]
        calls1 == AddPartitionCalls(parts) \o <<<<"layout_partitions", fmt>>>>
        calls2 == calls1 \o <<<<"mkdtemp">>>> \o AddDiskCalls(order)
                         \o <<<<"mount">>>>
    IN IF oc = "layout_error"
       THEN [status |-> "MountError", instloop |-> loop, disks |-> <<>>,
             imgdir |-> NoDir, calls |-> calls1]
       ELSE IF oc = "mount_error"
       THEN [status |-> "MountError", instloop |-> loop, disks |-> order,
             imgdir |-> [created |-> TRUE, files |-> {}], calls |-> calls2]
       ELSE [status |-> "ok", instloop |-> loop, disks |-> order,
             imgdir |-> [created |-> TRUE,
                         files |-> {FullName(order[i], "raw") :
                                        i \in 1..Len(order)}],
             calls |-> calls2 \o <<<<"mkinitrd">>>>]

MountInstroot ==
    /\ stage = "new"
    /\ \E oc \in PlannerOutcomes, partuuidOk \in BOOLEAN :
       \E order \in KeyOrders(PlannerDisks(PartsAfterGetParts(ks_partitions))),
          sv \in SubvolumeChoices(PartsAfterGetParts(ks_partitions)) :
          LET parts == PartsAfterGetParts(ks_partitions)
              r == MountInstrootResult(parts, ptable_format, oc, partuuidOk,
                                       fs_uuids, sv, order)
          IN /\ ks_partitions' = parts
             /\ ks_reads' = ks_reads + 1
             /\ instloop' = r.instloop
             /\ disks' = r.disks
             /\ imgdir' = r.imgdir
             /\ log' = log \o r.calls
             /\ ret' = [op |-> "_mount_instroot", status |-> r.status,
                        value |-> <<>>]
             /\ stage' = IF r.status = "ok" THEN "mounted" ELSE "failed"
    /\ UNCHANGED <<disk_names, ncalls, configVars, rootfsVars, extlinux_conf,
                   outdir>>

\* ------------------------------------------------------------------------
\* _unmount_instroot
\* ------------------------------------------------------------------------
\* a faulty variant: the MountError of cleanup() is not caught
UnmountInstrootReraising(loop, co) ==
    IF loop.created
    THEN [status |-> co, calls |-> <<<<"cleanup">>>>]
    ELSE [status |-> "ok", calls |-> <<>>]

\* the whole of _unmount_instroot for planner object loop and cleanup()
\* outcome co: a MountError of cleanup() is caught and logged
UnmountInstrootResult(loop, co) ==
    IF loop.created
    THEN IF co = "MountError"
         THEN [status |-> "ok", calls |-> <<<<"cleanup">>, <<"warning">>>>]
         ELSE [status |-> "ok", calls |-> <<<<"cleanup">>>>]
    ELSE [status |-> "ok", calls |-> <<>>]

UnmountInstroot ==
    /\ stage \in {"new", "mounted", "configured", "failed"}
    /\ \E co \in CleanupOutcomes :
          LET r == UnmountInstrootResult(instloop, co)
          IN /\ log' = log \o r.calls
             /\ ret' = [op |-> "_unmount_instroot", status |-> r.status,
                        value |-> <<co>>]
    /\ stage' = IF stage \in {"mounted", "configured"} THEN "unmounted"
                ELSE "cleaned"
    /\ UNCHANGED <<ks_partitions, disk_names, ncalls, ks_reads, configVars, rootfsVars,
                   extlinux_conf, imageVars>>

\* ------------------------------------------------------------------------
\* _get_syslinux_boot_config
\* ------------------------------------------------------------------------
\* "/dev/%s%-d" % (p['disk_name'], p['num'])
DevicePath(p) == "/dev/" \o p.disk_name \o ToString(p.num)

\* the loop has no break: the last partition mounted at "/" decides
RECURSIVE SyslinuxBootConfigLoop(_, _, _)
SyslinuxBootConfigLoop(partitions, i, acc) ==
    IF i > Len(partitions) THEN acc
    ELSE IF partitions[i].mountpoint = "/"
         THEN SyslinuxBootConfigLoop(partitions, i + 1,
                  [rootdev |-> DevicePath(partitions[i]),
                   root_part_uuid |-> partitions[i].partuuid])
         ELSE SyslinuxBootConfigLoop(partitions, i + 1, acc)

GetSyslinuxBootConfig(partitions) ==
    SyslinuxBootConfigLoop(partitions, 1,
                           [rootdev |-> None, root_part_uuid |-> None])

\* ------------------------------------------------------------------------
\* _create_syslinux_config
\* ------------------------------------------------------------------------
\* a faulty variant: the partition UUID is required whatever the table format
RootStrByPartuuid(fmt, rootdev, root_part_uuid) ==
    IF root_part_uuid = None THEN "<MountError>"
    ELSE "PARTUUID=" \o root_part_uuid

\* the root= argument of the default-kernel entry; NoRootStr stands for the
\* MountError raised for a gpt table without a root partition UUID
NoRootStr == "<MountError>"

RootStr(fmt, rootdev, root_part_uuid) ==
    IF fmt = "msdos" THEN rootdev
    ELSE IF root_part_uuid = None THEN NoRootStr
    ELSE "PARTUUID=" \o root_part_uuid

\* the entry written when <instroot>/boot/vmlinuz exists
SymkernEntry(rootstr) ==
    [label |-> "distro", linux |-> "../vmlinuz", root |-> rootstr,
     default |-> TRUE]

\* the entries written otherwise: one per kernel version, all with rootdev
VersionEntries(versions, rootdev) ==
    [i \in 1..Len(versions) |->
        [label |-> "distro" \o ToString(i - 1),
         linux |-> "../vmlinuz-" \o versions[i],
         root |-> rootdev,
         default |-> (i - 1 = 0)]]

\* the whole of _create_syslinux_config: the entries it writes to
\* extlinux.conf, or the MountError it raises
CreateSyslinuxConfig(partitions, fmt, symkern, versions) ==
    LET bc == GetSyslinuxBootConfig(partitions)
    IN IF symkern
       THEN LET rootstr == RootStr(fmt, bc.rootdev, bc.root_part_uuid)
            IN IF rootstr = NoRootStr
               THEN [status |-> "MountError", entries |-> <<>>]
               ELSE [status |-> "ok", entries |-> <<SymkernEntry(rootstr)>>]
       ELSE [status |-> "ok", entries |-> VersionEntries(versions, bc.rootdev)]

\* ------------------------------------------------------------------------
\* _install_syslinux
\* ------------------------------------------------------------------------
\* what can happen to one disk: os.stat(mbrfile) raises, dd or extlinux
\* returns a non-zero status, or all succeed
InstallOutcomes == {"ok", "stat_error", "dd_failed", "extlinux_failed"}

MbrFile(fmt) == IF fmt = "gpt" THEN "gptmbr.bin" ELSE "mbr.bin"

\* a faulty variant: no sync between dd and extlinux
DiskCallsWithoutSync(name, fmt, outcome) ==
    IF outcome = "stat_error" THEN <<>>
    ELSE IF outcome = "dd_failed" THEN <<<<"dd", MbrFile(fmt), name, "1">>>>
    ELSE <<<<"dd", MbrFile(fmt), name, "0">>,
           <<"extlinux", name,
             IF outcome = "extlinux_failed" THEN "1" ELSE "0">>>>

\* the tool calls made for one disk, each with its exit status: dd of the
\* boot record, then sync, then extlinux -i; a failed dd ends them
DiskCalls(name, fmt, outcome) ==
    IF outcome = "stat_error" THEN <<>>
    ELSE IF outcome = "dd_failed" THEN <<<<"dd", MbrFile(fmt), name, "1">>>>
    ELSE <<<<"dd", MbrFile(fmt), name, "0">>,
           <<"sync">>,
           <<"extlinux", name,
             IF outcome = "extlinux_failed" THEN "1" ELSE "0">>>>

\* the exception one disk's outcome raises, if any
DiskStatus(outcome) ==
    IF outcome = "stat_error" THEN "OSError"
    ELSE IF outcome \in {"dd_failed", "extlinux_failed"} THEN "MountError"
    ELSE "ok"

\* the loop over self.__disks.keys() from position i on: the first disk
\* that raises ends it
RECURSIVE InstallSyslinuxLoop(_, _, _, _, _)
InstallSyslinuxLoop(order, i, fmt, oc, calls) ==
    IF i > Len(order) THEN [status |-> "ok", calls |-> calls]
    ELSE LET name == order[i]
             now == calls \o DiskCalls(name, fmt, oc[name])
         IN IF DiskStatus(oc[name]) # "ok"
            THEN [status |-> DiskStatus(oc[name]), calls |-> now]
            ELSE InstallSyslinuxLoop(order, i + 1, fmt, oc, now)

InstallSyslinux(order, fmt, oc) == InstallSyslinuxLoop(order, 1, fmt, oc, <<>>)

\* ------------------------------------------------------------------------
\* _create_bootconfig
\* ------------------------------------------------------------------------
\* a faulty variant: only the asset directory is looked for
SyslinuxAssetsOnly(syslinuxDir, extlinuxDir) == syslinuxDir

\* "If syslinux is available do the required configurations."
SyslinuxAvailable(syslinuxDir, extlinuxDir) == syslinuxDir /\ extlinuxDir

\* the whole of _create_bootconfig
CreateBootconfigResult(loop, order, fmt, sysDir, extDir, symkern, vers, oc) ==
    IF SyslinuxAvailable(sysDir, extDir)
    THEN LET c == CreateSyslinuxConfig(loop.partitions, fmt, symkern, vers)
             inst == InstallSyslinux(order, fmt, oc)
         IN IF c.status # "ok"
            THEN [status |-> c.status, conf |-> <<>>, calls |-> <<>>]
            ELSE [status |-> inst.status, conf |-> c.entries,
                  calls |-> <<<<"write_conf">>>> \o inst.calls]
    ELSE [status |-> "ok", conf |-> <<>>, calls |-> <<>>]

DiskSet(order) == {order[i] : i \in 1..Len(order)}

CreateBootconfig ==
    /\ stage = "mounted"
    /\ \E oc \in [DiskSet(disks) -> InstallOutcomes] :
          LET r == CreateBootconfigResult(instloop, disks, ptable_format,
                       has_syslinux, has_extlinux, has_symkern,
                       kernel_versions, oc)
          IN /\ extlinux_conf' = r.conf
             /\ log' = log \o r.calls
             /\ ret' = [op |-> "_create_bootconfig", status |-> r.status,
                        value |-> <<>>]
             /\ stage' = IF r.status = "ok" THEN "configured" ELSE "failed"
    /\ UNCHANGED <<ks_partitions, disk_names, ncalls, ks_reads, configVars, rootfsVars,
                   imageVars>>

\* ------------------------------------------------------------------------
\* _get_fstab: the text is a sequence of lines; a line keeps its four
\* variable fields and the statement that emitted it (by)
\* ------------------------------------------------------------------------
\* for p1 in partitions: if p1['mountpoint'] == mp: p = p1; break
FirstWithMountpoint(partitions, mp) ==
    partitions[CHOOSE i \in DOMAIN partitions :
                  /\ partitions[i].mountpoint = mp
                  /\ \A j \in 1..(i - 1) : partitions[j].mountpoint # mp]

\* a faulty variant: the device path is used whatever use_uuid says
FstabDeviceByPath(use, p) == DevicePath(p)

\* if self.use_uuid and p['uuid']: "UUID=%s" else "/dev/%s%-d"
FstabDevice(use, p) ==
    IF use /\ p.uuid # None THEN "UUID=" \o p.uuid ELSE DevicePath(p)

\* "defaults,noatime" if not fsopts else fsopts
FstabOpts(fsopts) == IF fsopts = None THEN "defaults,noatime" ELSE fsopts

FstabLine(by, device, mountpoint, fstype, fsopts) ==
    [by |-> by, device |-> device, mountpoint |-> mountpoint,
     fstype |-> fstype, fsopts |-> fsopts]

\* the line of the partition mounted at one entry of the mount order
PartitionLine(use, p) ==
    FstabLine("partition", FstabDevice(use, p), p.mountpoint, p.fstype,
              FstabOpts(p.fsopts))

\* the lines of the subvolumes, written after the line of "/": the
\* subvolume mounted at "/" is skipped, the device is always the path
RECURSIVE SubvolumeLines(_, _, _)
SubvolumeLines(p, subvolumes, i) ==
    IF i > Len(subvolumes) THEN <<>>
    ELSE IF subvolumes[i].mountpoint = "/"
         THEN SubvolumeLines(p, subvolumes, i + 1)
    ELSE <<FstabLine("subvolume", DevicePath(p), subvolumes[i].mountpoint,
                     p.fstype, FstabOpts(subvolumes[i].fsopts))>>
            \o SubvolumeLines(p, subvolumes, i + 1)

\* for mp in self.__instloop.mountOrder
RECURSIVE FstabLoop(_, _, _)
FstabLoop(loop, use, i) ==
    IF i > Len(loop.mountOrder) THEN <<>>
    ELSE LET p == FirstWithMountpoint(loop.partitions, loop.mountOrder[i])
         IN <<PartitionLine(use, p)>>
               \o (IF p.mountpoint = "/"
                   THEN SubvolumeLines(p, loop.subvolumes, 1)
                   ELSE <<>>)
               \o FstabLoop(loop, use, i + 1)

\* a faulty variant: proc is written before devpts
VirtualLinesProcFirst ==
    <<FstabLine("fixed", "proc", "/proc", "proc", "defaults"),
      FstabLine("fixed", "devpts", "/dev/pts", "devpts", "gid=5,mode=620"),
      FstabLine("fixed", "tmpfs", "/dev/shm", "tmpfs", "defaults"),
      FstabLine("fixed", "sysfs", "/sys", "sysfs", "defaults")>>

\* the four lines appended after the loop
VirtualLines ==
    <<FstabLine("fixed", "devpts", "/dev/pts", "devpts", "gid=5,mode=620"),
      FstabLine("fixed", "tmpfs", "/dev/shm", "tmpfs", "defaults"),
      FstabLine("fixed", "proc", "/proc", "proc", "defaults"),
      FstabLine("fixed", "sysfs", "/sys", "sysfs", "defaults")>>

GetFstabResult(loop, use) == FstabLoop(loop, use, 1) \o VirtualLines

\* _get_fstab is called once the planner has mounted the partitions
GetFstab ==
    /\ stage = "mounted"
    /\ ret' = [op |-> "_get_fstab", status |-> "ok",
               value |-> GetFstabResult(instloop, use_uuid)]
    /\ UNCHANGED <<ks_partitions, disk_names, ncalls, ks_reads, configVars,
                   rootfsVars, extlinux_conf, imageVars, log, stage>>

\* ------------------------------------------------------------------------
\* _stage_final_image
\* ------------------------------------------------------------------------
\* os.listdir: the files of a directory as a list, in some fixed order
RECURSIVE ListDir(_)
ListDir(files) ==
    IF files = {} THEN <<>>
    ELSE LET f == CHOOSE x \in files : TRUE
         IN <<f>> \o ListDir(files \ {f})

\* if imgfile.endswith('.raw') or imgfile.endswith('bin')
IsDiskFile(f) == EndsWith(f, "raw") \/ EndsWith(f, "bin")

\* misc.compressing replaces a file by its compressed form, which carries
\* the method as one more extension
Compressed(f, method) == Append(f, method)

\* a faulty variant: compression is skipped when a pack archive is configured
CompressionRunsUnlessPacked(compress, packTo) ==
    compress # None /\ packTo = None

\* if self.compress_image:
CompressionRuns(compress, packTo) == compress # None

\* the compression loop over the image directory
CompressStep(files, compress, packTo) ==
    IF CompressionRuns(compress, packTo)
    THEN LET listing == SelectSeq(ListDir(files), IsDiskFile)
         IN [files |-> {f \in files : ~IsDiskFile(f)} \cup
                       {Compressed(listing[i], compress) :
                            i \in 1..Len(listing)},
             calls |-> [i \in 1..Len(listing) |->
                           <<"compress">> \o listing[i]]]
    ELSE [files |-> files, calls |-> <<>>]

\* misc.packing writes one archive of the image directory to the output
\* directory and leaves the directory as it is
PackStep(files, out, packTo) ==
    [files |-> files, out |-> out \cup {<<packTo>>},
     calls |-> <<<<"pack", packTo>>>>]

\* a faulty variant: the files are copied, not moved
CopyStep(files, out) ==
    LET listing == ListDir(files)
    IN [files |-> files, out |-> out \cup files,
        calls |-> [i \in 1..Len(listing) |-> <<"move">> \o listing[i]]]

\* shutil.move of every file of the image directory to the output directory
MoveStep(files, out) ==
    LET listing == ListDir(files)
    IN [files |-> {}, out |-> out \cup files,
        calls |-> [i \in 1..Len(listing) |-> <<"move">> \o listing[i]]]

\* a faulty variant: the files are moved even when they were packed
PackThenMoveStep(files, out, packTo) ==
    IF packTo # None
    THEN LET p == PackStep(files, out, packTo)
             m == MoveStep(p.files, p.out)
         IN [files |-> m.files, out |-> m.out, calls |-> p.calls \o m.calls]
    ELSE MoveStep(files, out)

\* if self.pack_to: ... else: ...
PackOrMoveStep(files, out, packTo) ==
    IF packTo # None THEN PackStep(files, out, packTo)
    ELSE MoveStep(files, out)

\* the file read by misc.calc_hashes, and whether it is there to be read
HashCall(name, out) ==
    <<"calc_hashes", name, "raw",
      IF FullName(name, "raw") \in out THEN "present" ELSE "absent">>

\* the checksum loop of _write_image_xml from position i on: hashing a file
\* that does not exist raises
RECURSIVE HashLoop(_, _, _, _)
HashLoop(order, i, out, calls) ==
    IF i > Len(order) THEN [status |-> "ok", calls |-> calls]
    ELSE IF FullName(order[i], "raw") \in out
         THEN HashLoop(order, i + 1, out, Append(calls, HashCall(order[i], out)))
         ELSE [status |-> "IOError",
               calls |-> Append(calls, HashCall(order[i], out))]

\* the whole of _write_image_xml: <outdir>/<name>.xml is written last
WriteImageXml(order, out, sum) ==
    LET h == IF sum THEN HashLoop(order, 1, out, <<>>)
             ELSE [status |-> "ok", calls |-> <<>>]
    IN IF h.status = "ok"
       THEN [status |-> "ok", out |-> out \cup {<<"xml">>},
             calls |-> Append(h.calls, <<"write_xml">>)]
       ELSE [status |-> h.status, out |-> out, calls |-> h.calls]

\* a faulty variant: the files are compressed before the resparse
StageCallsResparseLate(resparse, compress, packOrMove, xml) ==
    compress \o resparse \o packOrMove \o xml

\* the order of the steps of _stage_final_image
StageCalls(resparse, compress, packOrMove, xml) ==
    resparse \o compress \o packOrMove \o xml

\* the whole of _stage_final_image
StageFinalImageResult(order, files, out, compress, packTo, sum) ==
    LET c == CompressStep(files, compress, packTo)
        m == PackOrMoveStep(c.files, out, packTo)
        x == WriteImageXml(order, m.out, sum)
    IN [status |-> x.status, files |-> m.files, out |-> x.out,
        calls |-> StageCalls(<<<<"resparse">>>>, c.calls, m.calls, x.calls)]

StageFinalImage ==
    /\ stage = "unmounted"
    /\ LET r == StageFinalImageResult(disks, imgdir.files, outdir,
                                      compress_image, pack_to, checksum)
       IN /\ imgdir' = [imgdir EXCEPT !.files = r.files]
          /\ outdir' = r.out
          /\ log' = log \o r.calls
          /\ ret' = [op |-> "_stage_final_image", status |-> r.status,
                     value |-> <<>>]
          /\ stage' = IF r.status = "ok" THEN "staged" ELSE "failed_final"
    /\ UNCHANGED <<ks_partitions, disk_names, ncalls, ks_reads, configVars, rootfsVars,
                   extlinux_conf, instloop, disks>>

\* ------------------------------------------------------------------------
\* generate_bmap
\* ------------------------------------------------------------------------
\* if self.bmap_needed is None: return
BmapSkipped(needed) == needed = None

\* the loop over self.__disks.keys() from position i on: the generator is
\* given <imgdir>/<name>.raw and fails on an image it cannot open
RECURSIVE BmapLoop(_, _, _, _, _)
BmapLoop(order, i, files, out, calls) ==
    IF i > Len(order) THEN [status |-> "ok", out |-> out, calls |-> calls]
    ELSE IF FullName(order[i], "raw") \in files
         THEN BmapLoop(order, i + 1, files,
                       out \cup {FullName(order[i], "bmap")},
                       Append(calls, <<"BmapCreate", order[i], "raw", "present">>))
         ELSE [status |-> "CreatorError", out |-> out,
               calls |-> Append(calls,
                                <<"BmapCreate", order[i], "raw", "absent">>)]

GenerateBmapResult(order, files, out, needed) ==
    IF BmapSkipped(needed)
    THEN [status |-> "ok", out |-> out, calls |-> <<>>]
    ELSE BmapLoop(order, 1, files, out, <<>>)

GenerateBmap ==
    /\ stage = "staged"
    /\ LET r == GenerateBmapResult(disks, imgdir.files, outdir, bmap_needed)
       IN /\ outdir' = r.out
          /\ log' = log \o r.calls
          /\ ret' = [op |-> "generate_bmap", status |-> r.status,
                     value |-> <<>>]
          /\ stage' = IF r.status = "ok" THEN "done" ELSE "failed_bmap"
    /\ UNCHANGED <<ks_partitions, disk_names, ncalls, ks_reads, configVars, rootfsVars,
                   extlinux_conf, instloop, disks, imgdir>>

\* ------------------------------------------------------------------------
\* Specifications
\* ------------------------------------------------------------------------
\* the state after __init__, apart from the partition list and the options
InitObject ==
    /\ disk_names = <<>>
    /\ ret = NoRet
    /\ ncalls = 0
    /\ ks_reads = 0
    /\ extlinux_conf = <<>>
    /\ instloop = NoLoop
    /\ disks = <<>>
    /\ imgdir = NoDir
    /\ outdir = {}
    /\ log = <<>>
    /\ stage = "new"

InitLayout ==
    /\ InitObject
    /\ ks_partitions \in SeqsUpTo(PartSpecs, MaxParts)
    /\ ptable_format = "msdos"
    /\ compress_image = None
    /\ pack_to = None
    /\ checksum = FALSE
    /\ bmap_needed = None
    /\ use_uuid = TRUE
    /\ fs_uuids = 1..MaxParts
    /\ has_syslinux = FALSE
    /\ has_extlinux = FALSE
    /\ has_symkern = FALSE
    /\ kernel_versions = <<>>

NextLayout == GetParts \/ GetDiskNames \/ MountInstroot

SpecLayout == InitLayout /\ [][NextLayout]_vars

NextMount == MountInstroot \/ UnmountInstroot

SpecMount == InitLayout /\ [][NextMount]_vars

\* partition lines of builds whose fstab is of interest: mounted partitions
\* with or without mount options, and a swap partition
FstabPartSpecs ==
    [disk : {"sda"}, mountpoint : MountPoints, fstype : {"ext3", "btrfs"},
     fsopts : {None, "ro"}, size : {DefaultSize}]
    \cup {[disk |-> "sda", mountpoint |-> None, fstype |-> "swap",
            fsopts |-> None, size |-> DefaultSize]}

InitFstab ==
    /\ InitObject
    /\ ks_partitions \in SeqsUpTo(FstabPartSpecs, MaxParts)
    /\ ptable_format = "msdos"
    /\ compress_image = None
    /\ pack_to = None
    /\ checksum = FALSE
    /\ bmap_needed = None
    /\ use_uuid \in BOOLEAN
    /\ fs_uuids \in SUBSET (1..MaxParts)
    /\ has_syslinux = FALSE
    /\ has_extlinux = FALSE
    /\ has_symkern = FALSE
    /\ kernel_versions = <<>>

NextFstab == MountInstroot \/ GetFstab

SpecFstab == InitFstab /\ [][NextFstab]_vars

\* partition lines of builds whose boot configuration is of interest
BootPartSpecs ==
    {p \in PartSpecs : p.disk # None /\ (p.mountpoint = None <=> p.fstype = None)}

InitBoot ==
    /\ InitObject
    /\ ks_partitions \in SeqsUpTo(BootPartSpecs, MaxParts)
    /\ ptable_format \in {"msdos", "gpt"}
    /\ compress_image = None
    /\ pack_to = None
    /\ checksum = FALSE
    /\ bmap_needed = None
    /\ use_uuid = TRUE
    /\ fs_uuids = 1..MaxParts
    /\ has_syslinux \in BOOLEAN
    /\ has_extlinux \in BOOLEAN
    /\ has_symkern \in BOOLEAN
    /\ kernel_versions \in KernelLists

NextBoot == MountInstroot \/ CreateBootconfig \/ UnmountInstroot

SpecBoot == InitBoot /\ [][NextBoot]_vars

\* partition lines of builds whose staging is of interest
FinalPartSpecs == {p \in BootPartSpecs : p.mountpoint # "/boot"}

InitFinal ==
    /\ InitObject
    /\ ks_partitions \in SeqsUpTo(FinalPartSpecs, MaxParts)
    /\ ptable_format = "msdos"
    /\ compress_image \in {None, "bz2"}
    /\ pack_to \in {None, "images.tar"}
    /\ checksum \in BOOLEAN
    /\ bmap_needed \in {None, "False", "True"}
    /\ use_uuid = TRUE
    /\ fs_uuids = 1..MaxParts
    /\ has_syslinux = FALSE
    /\ has_extlinux = FALSE
    /\ has_symkern = FALSE
    /\ kernel_versions = <<>>

NextFinal ==
    \/ MountInstroot
    \/ CreateBootconfig
    \/ UnmountInstroot
    \/ StageFinalImage
    \/ GenerateBmap

SpecFinal == InitFinal /\ [][NextFinal]_vars

\* ------------------------------------------------------------------------
\* Helpers of the properties
\* ------------------------------------------------------------------------
\* s without repetitions, each element at its first occurrence
RECURSIVE FirstOccurrences(_)
FirstOccurrences(s) ==
    IF s = <<>> THEN <<>>
    ELSE LET front == FirstOccurrences(SubSeq(s, 1, Len(s) - 1))
             last == s[Len(s)]
         IN IF \E i \in DOMAIN front : front[i] = last THEN front
            ELSE Append(front, last)

TargetDisks(parts) == [i \in 1..Len(parts) |-> parts[i].disk]

\* the calls of the log whose first word is in kinds, in order
CallsOf(kinds) == SelectSeq(log, LAMBDA c : c[1] \in kinds)

InstallCalls == CallsOf({"dd", "sync", "extlinux"})

\* _create_bootconfig has been called and found syslinux available
BootConfigAttempted ==
    /\ ret.op = "_create_bootconfig"
    /\ has_syslinux
    /\ has_extlinux

RootPartUuid == GetSyslinuxBootConfig(instloop.partitions).root_part_uuid

\* ------------------------------------------------------------------------
\* C1
\* ------------------------------------------------------------------------
\* C1: a successful get_disk_names returns each distinct target disk name
\* exactly once, in the order of its first occurrence among the partitions.
C1_DedupOrderPreserving ==
    (ret.op = "get_disk_names" /\ ret.status = "ok")
        => ret.value = FirstOccurrences(TargetDisks(ks_partitions))

\* ------------------------------------------------------------------------
\* C2
\* ------------------------------------------------------------------------
\* C2: in a gpt build, boot configuration generation fails with MountError
\* when the root partition has no partition UUID (or there is no root
\* partition), whether or not /boot/vmlinuz exists; with a UUID every
\* written entry addresses the root as PARTUUID=<uuid>.
C2_GptRootByPartuuid ==
    (BootConfigAttempted /\ ptable_format = "gpt")
        => IF RootPartUuid = None
           THEN ret.status = "MountError" /\ CallsOf({"write_conf"}) = <<>>
           ELSE \A i \in DOMAIN extlinux_conf :
                    extlinux_conf[i].root = "PARTUUID=" \o RootPartUuid

\* ------------------------------------------------------------------------
\* C4
\* ------------------------------------------------------------------------
\* C4: _unmount_instroot never raises: without a planner object it calls
\* nothing, and a MountError of the planner's cleanup is logged as a warning
\* and the call returns normally.
C4_UnmountNeverRaises ==
    ret.op = "_unmount_instroot"
        => /\ ret.status = "ok"
           /\ ~instloop.created => CallsOf({"cleanup", "warning"}) = <<>>
           /\ instloop.created =>
                 IF ret.value = <<"MountError">>
                 THEN /\ Len(log) >= 2
                      /\ log[Len(log) - 1] = <<"cleanup">>
                      /\ log[Len(log)] = <<"warning">>
                 ELSE log[Len(log)] = <<"cleanup">>

\* the planner's teardown failed in the cleanup pass of a failed build
C4_Witness ==
    /\ ret.op = "_unmount_instroot"
    /\ ret.value = <<"MountError">>
    /\ instloop.created
    /\ stage = "cleaned"

\* ------------------------------------------------------------------------
\* C5
\* ------------------------------------------------------------------------
\* C5: for every disk the tool calls are dd, sync, extlinux in that order;
\* extlinux never runs without the disk's dd and a sync right before it, and
\* a dd with a non-zero exit status raises MountError and is the last tool
\* call: no sync and no installer for that disk or a later one.
C5_InstallOrder ==
    LET ic == InstallCalls
    IN \A k \in DOMAIN ic :
          /\ ic[k][1] = "extlinux" =>
                /\ k >= 3
                /\ ic[k - 1] = <<"sync">>
                /\ ic[k - 2] = <<"dd", MbrFile(ptable_format), ic[k][2], "0">>
          /\ ic[k][1] = "sync" => (k >= 2 /\ ic[k - 1][1] = "dd")
          /\ (ic[k][1] = "dd" /\ ic[k][4] = "0") =>
                /\ k + 2 <= Len(ic)
                /\ ic[k + 1] = <<"sync">>
                /\ ic[k + 2][1] = "extlinux" /\ ic[k + 2][2] = ic[k][3]
          /\ (ic[k][1] = "dd" /\ ic[k][4] = "1") =>
                /\ k = Len(ic)
                /\ ret.op = "_create_bootconfig" => ret.status = "MountError"

\* the first disk was installed and the boot-record write of the second
\* failed
C5_Witness ==
    /\ ret.op = "_create_bootconfig"
    /\ Len(InstallCalls) = 4
    /\ InstallCalls[4][1] = "dd"
    /\ InstallCalls[4][4] = "1"

\* ------------------------------------------------------------------------
\* C6
\* ------------------------------------------------------------------------
\* C6: when usr/share/syslinux or boot/extlinux is absent, _create_bootconfig
\* writes no configuration, writes no boot record, runs no installer and
\* raises nothing.
C6_SkippedWithoutSyslinux ==
    (~has_syslinux \/ ~has_extlinux)
        => /\ extlinux_conf = <<>>
           /\ CallsOf({"write_conf", "dd", "sync", "extlinux"}) = <<>>
           /\ ret.op = "_create_bootconfig" => ret.status = "ok"

\* _create_bootconfig ran on a tree with the assets but without boot/extlinux
C6_Witness ==
    /\ ret.op = "_create_bootconfig"
    /\ has_syslinux
    /\ ~has_extlinux
    /\ Len(disks) > 0

\* ------------------------------------------------------------------------
\* C7
\* ------------------------------------------------------------------------
\* C7: in a gpt build whose root partition has no partition UUID,
\* _create_bootconfig fails with MountError and no dd and no extlinux has
\* been run on any disk.
C7_FailsBeforeInstall ==
    (BootConfigAttempted /\ ptable_format = "gpt" /\ RootPartUuid = None)
        => /\ ret.status = "MountError"
           /\ CallsOf({"dd", "extlinux"}) = <<>>

\* ------------------------------------------------------------------------
\* C8
\* ------------------------------------------------------------------------
\* a partition without a target disk, or with a mountpoint and no fstype
BadPart(p) == p.disk = None \/ (p.mountpoint # None /\ p.fstype = None)

\* C8: with such a partition in the list, _mount_instroot fails with a
\* configuration error before the planner is called and before the image
\* directory or a backing file exists.
C8_ConfigErrorBeforePlanner ==
    (ret.op = "_mount_instroot"
        /\ \E i \in DOMAIN ks_partitions : BadPart(ks_partitions[i]))
        => /\ ret.status = "CreatorError"
           /\ log = <<>>
           /\ ~imgdir.created
           /\ imgdir.files = {}

\* ------------------------------------------------------------------------
\* C3
\* ------------------------------------------------------------------------
StageCallsMade == CallsOf({"resparse", "compress", "pack", "move", "write_xml"})

StageRan == ret.op = "_stage_final_image"

\* C3 as stated: with a compression mode and a pack archive both configured,
\* no disk file is compressed.
C3_PackSuppressesCompression ==
    (StageRan /\ compress_image # None /\ pack_to # None)
        => CallsOf({"compress"}) = <<>>

\* C3 as amended: compression does not depend on packing. Every disk file is
\* compressed exactly when a compression mode is configured; a pack archive
\* only replaces the per-file move, and the one pack call comes after every
\* compression.
C3_CompressionIndependentOfPack ==
    StageRan
        => /\ compress_image # None =>
                 /\ Len(CallsOf({"compress"})) = Len(disks)
                 /\ \A d \in DiskSet(disks) :
                       \E i \in DOMAIN log : log[i] = <<"compress", d, "raw">>
           /\ compress_image = None => CallsOf({"compress"}) = <<>>
           /\ pack_to # None =>
                 /\ CallsOf({"pack"}) = <<<<"pack", pack_to>>>>
                 /\ CallsOf({"move"}) = <<>>
                 /\ \A i, j \in DOMAIN log :
                       (log[i][1] = "compress" /\ log[j][1] = "pack") => i < j

\* both were configured and the build has two disks
C3_Witness ==
    /\ StageRan
    /\ compress_image # None
    /\ pack_to # None
    /\ Len(disks) = 2
    /\ Len(CallsOf({"compress"})) = 2

\* ------------------------------------------------------------------------
\* C9
\* ------------------------------------------------------------------------
\* C9: every path hashed by _write_image_xml is a file present in the output
\* directory, whatever the compression and pack settings, and is hashed
\* after the pack or move of the files.
C9_HashedFilePresent ==
    \A i \in DOMAIN log :
        log[i][1] = "calc_hashes" =>
            /\ log[i][4] = "present"
            /\ \A j \in DOMAIN log : log[j][1] \in {"pack", "move"} => j < i

\* ------------------------------------------------------------------------
\* C10
\* ------------------------------------------------------------------------
StageRank(c) ==
    IF c[1] = "resparse" THEN 1
    ELSE IF c[1] = "compress" THEN 2
    ELSE IF c[1] \in {"pack", "move"} THEN 3
    ELSE 4

\* C10: the steps run in the order resparse, compression, pack or move,
\* descriptor write: one resparse, first; the descriptor is written last,
\* after the archive was packed or every file of the image directory moved.
C10_StageOrder ==
    StageRan
        => LET sc == StageCallsMade
           IN /\ Len(CallsOf({"resparse"})) = 1
              /\ sc[1] = <<"resparse">>
              /\ \A i, j \in DOMAIN sc :
                    i < j => StageRank(sc[i]) <= StageRank(sc[j])
              /\ Len(CallsOf({"write_xml"})) <= 1
              /\ ret.status = "ok" => sc[Len(sc)] = <<"write_xml">>
              /\ CallsOf({"write_xml"}) # <<>> =>
                    IF pack_to # None
                    THEN Len(CallsOf({"pack"})) = 1
                    ELSE /\ Len(CallsOf({"move"})) = Len(disks)
                         /\ imgdir.files = {}

\* two disk files were compressed and moved and the descriptor written
C10_Witness ==
    /\ StageRan
    /\ ret.status = "ok"
    /\ compress_image # None
    /\ pack_to = None
    /\ Len(CallsOf({"compress"})) = 2
    /\ Len(CallsOf({"move"})) = 2
    /\ <<"xml">> \in outdir

\* ------------------------------------------------------------------------
\* C11
\* ------------------------------------------------------------------------
\* the disk files <name>-<disk>.raw, compressed or not
DiskFilesOf(files) == {f \in files : Len(f) >= 2 /\ f[2] = "raw"}

\* C11: with a pack archive configured, exactly one archive is written to
\* the output directory and no file is moved there individually; without
\* one, every file of the image directory is moved and no archive written.
C11_PackXorMove ==
    StageRan
        => IF pack_to # None
           THEN /\ CallsOf({"pack"}) = <<<<"pack", pack_to>>>>
                /\ CallsOf({"move"}) = <<>>
                /\ <<pack_to>> \in outdir
                /\ DiskFilesOf(outdir) = {}
           ELSE /\ CallsOf({"pack"}) = <<>>
                /\ Len(CallsOf({"move"})) = Len(disks)
                /\ Cardinality(DiskFilesOf(outdir)) = Len(disks)
                /\ imgdir.files = {}
                /\ \A f \in outdir : Len(f) >= 2 \/ f = <<"xml">>

\* two disk files were packed into the archive, none moved
C11_Witness ==
    /\ StageRan
    /\ ret.status = "ok"
    /\ pack_to # None
    /\ compress_image = None
    /\ Len(disks) = 2
    /\ outdir = {<<pack_to>>, <<"xml">>}

\* ------------------------------------------------------------------------
\* C12
\* ------------------------------------------------------------------------
OriginalFiles == {<<d, "raw">> : d \in DiskSet(disks)}

C13_NoBmapUnlessRequested ==
    bmap_needed \in {None, "False"}
        => /\ CallsOf({"BmapCreate"}) = <<>>
           /\ \A f \in outdir : ~EndsWith(f, "bmap")

\* ------------------------------------------------------------------------
\* C16
\* ------------------------------------------------------------------------
RootIndexes ==
    {i \in DOMAIN instloop.partitions : instloop.partitions[i].mountpoint = "/"}

LastRoot ==
    instloop.partitions[CHOOSE i \in RootIndexes : \A j \in RootIndexes : j <= i]

\* C16: in a msdos build no MountError is raised for a missing partition
\* UUID (the configuration is written) and every written entry, the single
\* default-kernel one or one per kernel version, addresses the root by the
\* device path /dev/<disk><num> of the "/" partition.
C16_MsdosRootByDevicePath ==
    (BootConfigAttempted /\ ptable_format = "msdos")
        => /\ CallsOf({"write_conf"}) = <<<<"write_conf">>>>
           /\ RootPartUuid = None
           /\ RootIndexes # {} =>
                 \A i \in DOMAIN extlinux_conf :
                     extlinux_conf[i].root =
                         "/dev/" \o LastRoot.disk_name \o ToString(LastRoot.num)

\* the default-kernel entry of a msdos build with a root partition
C16_Witness ==
    /\ BootConfigAttempted
    /\ ptable_format = "msdos"
    /\ has_symkern
    /\ RootIndexes # {}
    /\ Len(extlinux_conf) = 1
    /\ extlinux_conf[1].root = "/dev/sdb1"

\* ------------------------------------------------------------------------
\* C20
\* ------------------------------------------------------------------------
\* C20: with the stages run in the order unmount, finalize (with the
\* descriptor), block map, and block-map generation requested, every image
\* path handed to the block-map generator is a file that exists at that path.
C20_BmapImagePresent ==
    bmap_needed = "True"
        => \A i \in DOMAIN log :
               log[i][1] = "BmapCreate" => log[i][4] = "present"

\* ------------------------------------------------------------------------
\* C17
\* ------------------------------------------------------------------------
\* C17: get_disk_names fails with CreatorError whenever some partition of
\* the list has no target disk, or a mountpoint and no filesystem type,
\* wherever that partition stands in the list.
C17_BadListRaises ==
    (ret.op = "get_disk_names"
        /\ \E i \in DOMAIN ks_partitions : BadPart(ks_partitions[i]))
        => ret.status = "CreatorError"

\* ------------------------------------------------------------------------
\* C18
\* ------------------------------------------------------------------------
\* a get_disk_names call has run through the whole list: the cache holds the
\* target disk of every partition
FullyCached ==
    disk_names # <<>> /\ disk_names = TargetDisks(ks_partitions)

\* C18: once a get_disk_names call has succeeded, every further call returns
\* the same list, adds nothing to it and does not read the partition list
\* again.
C18_Idempotent ==
    [][(FullyCached /\ ret'.op = "get_disk_names" /\ ncalls' = ncalls + 1)
          => /\ ret'.status = "ok"
             /\ ret'.value = disk_names
             /\ disk_names' = disk_names
             /\ ks_partitions' = ks_partitions
             /\ ks_reads' = ks_reads]_vars

\* a second call returned the two names of the first from the cache
C18_Witness ==
    /\ ret.op = "get_disk_names"
    /\ ret.status = "ok"
    /\ ncalls = 2
    /\ ks_reads = 1
    /\ Len(ret.value) = 2
    /\ ret.value = TargetDisks(ks_partitions)

\* ------------------------------------------------------------------------
\* C19
\* ------------------------------------------------------------------------
\* the partition "part / --size 1900 --ondisk sda --fstype=ext3"
IsDefaultPart(p) ==
    p.mountpoint = "/" /\ p.size = 1900 /\ p.disk = "sda" /\ p.fstype = "ext3"

\* C19: every call of _get_parts (its own, or through get_disk_names or
\* _mount_instroot) leaves a non-empty partition list: an empty list gets
\* exactly one default partition, a non-empty list is left as it is, so a
\* second call adds no second default partition.
C19_PartsNeverEmpty ==
    [][ks_reads' # ks_reads
          => /\ ks_partitions' # <<>>
             /\ ks_partitions = <<>> =>
                   (Len(ks_partitions') = 1 /\ IsDefaultPart(ks_partitions'[1]))
             /\ ks_partitions # <<>> => ks_partitions' = ks_partitions
             /\ ret'.op = "_get_parts" => ret'.value = ks_partitions']_vars

\* _get_parts, get_disk_names and _mount_instroot each read the list, and
\* it holds the one default partition
C19_Witness ==
    /\ stage = "mounted"
    /\ ks_reads = 3
    /\ disk_names = <<"sda">>
    /\ Len(ks_partitions) = 1
    /\ IsDefaultPart(ks_partitions[1])

\* ------------------------------------------------------------------------
\* fstab
\* ------------------------------------------------------------------------
\* the lines _get_fstab wrote for the entries of the mount order
PrimaryLines == SelectSeq(ret.value, LAMBDA l : l.by = "partition")

\* C14: _get_fstab writes exactly one primary line per entry of the
\* planner's mount order, in mount order, and the text ends with exactly the
\* four fixed lines devpts, tmpfs (/dev/shm), proc, sysfs, in that order
C14_OneLinePerMountpoint ==
    ret.op = "_get_fstab" =>
        LET lines == ret.value
            n == Len(lines)
            mo == instloop.mountOrder
        IN /\ Len(PrimaryLines) = Len(mo)
           /\ \A i \in 1..Len(mo) : PrimaryLines[i].mountpoint = mo[i]
           /\ n >= 4
           /\ <<lines[n - 3].device, lines[n - 3].mountpoint>>
                 = <<"devpts", "/dev/pts">>
           /\ <<lines[n - 2].device, lines[n - 2].mountpoint>>
                 = <<"tmpfs", "/dev/shm">>
           /\ <<lines[n - 1].device, lines[n - 1].mountpoint>>
                 = <<"proc", "/proc">>
           /\ <<lines[n].device, lines[n].mountpoint>> = <<"sysfs", "/sys">>
           /\ \A i \in 1..n : lines[i].by = "fixed" <=> i > n - 4

\* a text with two primary lines, a subvolume line between them and the
\* fixed lines
C14_Witness ==
    /\ ret.op = "_get_fstab"
    /\ instloop.mountOrder = <<"/", "/boot">>
    /\ Len(ret.value) = 7
    /\ ret.value[2].by = "subvolume"

\* C15: a primary line is addressed by UUID=<uuid> exactly when use_uuid is
\* set and the partition has a UUID, and by /dev/<disk><number> otherwise;
\* its options are the partition's own, or defaults,noatime without them
C15_PrimaryLineAddressing ==
    ret.op = "_get_fstab" =>
        \A i \in 1..Len(PrimaryLines) :
            LET l == PrimaryLines[i]
                p == FirstWithMountpoint(instloop.partitions,
                                         instloop.mountOrder[i])
                path == "/dev/" \o p.disk_name \o ToString(p.num)
            IN /\ (use_uuid /\ p.uuid # None) => l.device = "UUID=" \o p.uuid
               /\ ~(use_uuid /\ p.uuid # None) => l.device = path
               /\ l.device # path => (use_uuid /\ p.uuid # None)
               /\ p.fsopts # None => l.fsopts = p.fsopts
               /\ p.fsopts = None => l.fsopts = "defaults,noatime"

\* UUID addressing on: one line by UUID with its own options, one line by
\* device path (the partition has no UUID) with the default options
C15_Witness ==
    /\ ret.op = "_get_fstab"
    /\ use_uuid
    /\ Len(PrimaryLines) = 2
    /\ PrimaryLines[1].device = "UUID=uuid-sda1"
    /\ PrimaryLines[1].fsopts = "ro"
    /\ PrimaryLines[2].device = "/dev/sda2"
    /\ PrimaryLines[2].fsopts = "defaults,noatime"

\* ------------------------------------------------------------------------
\* C21
\* ------------------------------------------------------------------------
\* C21: a get_disk_names call that raised CreatorError leaves the cache of
\* disk names empty, and the next get_disk_names call after it raises
\* CreatorError again instead of returning the names seen before the
\* offending partition.
C21_FailedCallLeavesCacheEmpty ==
    /\ []((ret.op = "get_disk_names" /\ ret.status = "CreatorError")
             => disk_names = <<>>)
    /\ [][(/\ ret.op = "get_disk_names"
           /\ ret.status = "CreatorError"
           /\ ret'.op = "get_disk_names"
           /\ ncalls' = ncalls + 1)
             => (ret'.status = "CreatorError" /\ disk_names' = <<>>)]_vars

====
